---- MODULE Spec2Model ----
(***************************************************************************)
(* Model of src/interactive_cli.py: the line reader, the confirmation      *)
(* prompt, the two permission-gate entry points (can_use_tool_gate and     *)
(* pre_tool_hitl), the message renderer and the interactive session loop,  *)
(* together with the agent runtime the loop talks to.                      *)
(*                                                                         *)
(* Python strings are sequences of one-character strings, so that          *)
(* str.lower, str.strip and the substring test `in` are computed.          *)
(***************************************************************************)
EXTENDS Integers, Sequences, FiniteSets, TLC

\* ------------------------------------------------------------------ bounds
MaxEvals == 2    \* gate evaluations in one run of the gate harness
MaxTurns == 2    \* queries submitted in one session
MaxMsgs == 2     \* messages before the ResultMessage in one response stream
MaxCalls == 2    \* tool invocations the runtime starts in one turn
MaxBlocks == 2   \* content blocks of a message handed to the renderer

\* ------------------------------------------------------------------- state
VARIABLES
    ptk,         \* _PTK_AVAILABLE: the line-editing backend was imported
    gate,        \* gate harness: the evaluation in progress or last finished
    gatePrev,    \* gate harness: the evaluation before it
    gateCount,   \* gate harness: evaluations begun
    reads,       \* gate harness: calls of read_user_input made by the gate
    skip_hitl,   \* interactive_session's argument (--no-hitl)
    options,     \* the ClaudeCodeOptions the client was built with
    session_id,  \* interactive_session's session_id
    pc,          \* where interactive_session is
    queries,     \* the client.query calls made, in order
    userReads,   \* reads of "You: " resolved so far
    lastInput,   \* what the last read of "You: " was given
    arrived,     \* runtime: the messages of this turn's stream, in order
    inbox,       \* runtime: those not yet taken by receive_response()
    taken,       \* messages of this turn the loop has taken
    calls,       \* runtime: this turn's tool invocations
    out          \* lines printed since the last query was submitted

gateVars == <<gate, gatePrev, gateCount, reads>>

sessionVars ==
    <<skip_hitl, options, session_id, pc, queries, userReads, lastInput,
      arrived, inbox, taken, calls, out>>

vars == <<ptk, gateVars, sessionVars>>

\* ------------------------------------------------------------ Python strings
UpperCase == <<"A","B","C","D","E","F","G","H","I","J","K","L","M",
               "N","O","P","Q","R","S","T","U","V","W","X","Y","Z">>

LowerCase == <<"a","b","c","d","e","f","g","h","i","j","k","l","m",
               "n","o","p","q","r","s","t","u","v","w","x","y","z">>

\* the characters str.strip() removes
Whitespace == {" ", "\t", "\n"}

LowerChar(c) ==
    IF \E i \in DOMAIN UpperCase : UpperCase[i] = c
    THEN LowerCase[CHOOSE i \in DOMAIN UpperCase : UpperCase[i] = c]
    ELSE c

\* str.lower()
RECURSIVE Lower(_)
Lower(s) == IF s = <<>> THEN <<>> ELSE <<LowerChar(Head(s))>> \o Lower(Tail(s))

RECURSIVE LStrip(_)
LStrip(s) ==
    IF s # <<>> /\ Head(s) \in Whitespace THEN LStrip(Tail(s)) ELSE s

RECURSIVE RStrip(_)
RStrip(s) ==
    IF s # <<>> /\ s[Len(s)] \in Whitespace
    THEN RStrip(SubSeq(s, 1, Len(s) - 1))
    ELSE s

\* str.strip()
Strip(s) == RStrip(LStrip(s))

\* Python's `sub in s` for strings
Contains(sub, s) ==
    \E i \in 0..(Len(s) - Len(sub)) : SubSeq(s, i + 1, i + Len(sub)) = sub

\* ------------------------------------------------------------ string literals
S_bash == <<"b","a","s","h">>
S_edit == <<"e","d","i","t">>
S_multiedit == <<"m","u","l","t","i","e","d","i","t">>
S_write == <<"w","r","i","t","e">>
S_notebookedit == <<"n","o","t","e","b","o","o","k","e","d","i","t">>
S_notebook == <<"n","o","t","e","b","o","o","k">>
S_y == <<"y">>
S_yes == <<"y","e","s">>
S_None == <<"N","o","n","e">>

\* Python values a tool name can take: a str, or None
StrVal(s) == [kind |-> "str", s |-> s]
NoneVal == [kind |-> "none", s |-> <<>>]

\* str(x) for a str or None
PyStr(v) == IF v.kind = "none" THEN S_None ELSE v.s

\* `x or ""` for a str or None
OrEmpty(v) == IF v.kind = "none" \/ v.s = <<>> THEN <<>> ELSE v.s

\* --------------------------------------------------------------- the program
HUMAN_GATED_TOOLS == {S_bash, S_edit, S_multiedit, S_write, S_notebookedit}

\* What the terminal delivers to one read: a submitted line, end-of-input
\* (EOFError) or the operator's interrupt (KeyboardInterrupt).
Line(text) == [kind |-> "line", text |-> text]
EOFError == [kind |-> "EOFError", text |-> <<>>]
KeyboardInterrupt == [kind |-> "KeyboardInterrupt", text |-> <<>>]

\* how a call ends: it returns a value or raises an exception
Return(v) == [raised |-> FALSE, value |-> v]
Raise(exc) == [raised |-> TRUE, exc |-> exc]

\* read_user_input without the try/except around prompt_async
read_user_input_ptk_uncaught(backend, delivered) ==
    IF backend
    THEN IF delivered.kind \in {"EOFError", "KeyboardInterrupt"}
         THEN Raise(delivered.kind)
         ELSE Return(delivered.text)
    ELSE IF delivered.kind \in {"EOFError", "KeyboardInterrupt"}
         THEN Return(<<>>)
         ELSE Return(delivered.text)

\* read_user_input whose fallback catches EOFError alone
read_user_input_eof_only(backend, delivered) ==
    IF backend
    THEN IF delivered.kind \in {"EOFError", "KeyboardInterrupt"}
         THEN Return(<<>>)
         ELSE Return(delivered.text)
    ELSE IF delivered.kind = "EOFError"
         THEN Return(<<>>)
         ELSE IF delivered.kind = "KeyboardInterrupt"
              THEN Raise("KeyboardInterrupt")
              ELSE Return(delivered.text)

\* read_user_input: prompt_toolkit's prompt_async when available, else
\* input() in a thread; either backend catches EOFError and
\* KeyboardInterrupt and returns "".
read_user_input(backend, delivered) ==
    IF backend
    THEN IF delivered.kind \in {"EOFError", "KeyboardInterrupt"}
         THEN Return(<<>>)
         ELSE Return(delivered.text)
    ELSE IF delivered.kind \in {"EOFError", "KeyboardInterrupt"}
         THEN Return(<<>>)
         ELSE Return(delivered.text)

\* prompt_yes_no that accepts any answer beginning with "y"
prompt_yes_no_startswith(backend, delivered) ==
    LET answer_raw == read_user_input(backend, delivered)
    IN  IF answer_raw.raised
        THEN answer_raw
        ELSE LET answer == Lower(Strip(answer_raw.value))
             IN  Return(answer # <<>> /\ Head(answer) = "y")

\* prompt_yes_no: the answer, stripped and lower-cased, is "y" or "yes";
\* an exception of read_user_input is not caught here
prompt_yes_no(backend, delivered) ==
    LET answer_raw == read_user_input(backend, delivered)
    IN  IF answer_raw.raised
        THEN answer_raw
        ELSE LET answer == Lower(Strip(answer_raw.value))
             IN  Return(answer \in {S_y, S_yes})

\* ---------------------------------------------------------- permission gate
PermissionResultAllow == [type |-> "PermissionResultAllow"]
PermissionResultDeny(message) == [type |-> "PermissionResultDeny", message |-> message]

\* the hook's return value, a dict, as its set of (key, value) pairs
HookProceed == {}
HookBlock == {<<"decision", "block">>}

\* can_use_tool_gate: tool_name_lc = (tool_name or "").lower()
gate_tool_name_lc(tool_name) == Lower(OrEmpty(tool_name))

\* the condition of can_use_tool_gate without the key "notebook"
gate_is_gated_no_notebook(tool_name_lc) ==
    \/ tool_name_lc \in HUMAN_GATED_TOOLS
    \/ \E key \in {S_bash, S_edit, S_write} : Contains(key, tool_name_lc)

\* can_use_tool_gate: the condition under which it asks for confirmation
gate_is_gated(tool_name_lc) ==
    \/ tool_name_lc \in HUMAN_GATED_TOOLS
    \/ \E key \in {S_bash, S_edit, S_write, S_notebook} : Contains(key, tool_name_lc)

\* the confirmation message of can_use_tool_gate
gate_prompt(tool_name, tool_input) ==
    [head |-> "Permission required", tool |-> PyStr(tool_name), input |-> tool_input]

\* can_use_tool_gate: what it returns once prompt_yes_no has answered
gate_return(tool_name, allow) ==
    IF allow
    THEN PermissionResultAllow
    ELSE PermissionResultDeny(<<"User denied ">> \o PyStr(tool_name))

\* pre_tool_hitl: input_data is a dict that may lack the key "tool_name"
InputData(has_name, tool_name, tool_input) ==
    [has_name |-> has_name, tool_name |-> tool_name, tool_input |-> tool_input]

\* pre_tool_hitl: tool_name = input_data.get("tool_name", "")
hook_tool_name(input_data) ==
    IF input_data.has_name THEN input_data.tool_name ELSE StrVal(<<>>)

\* name_lc of pre_tool_hitl without .lower()
hook_name_lc_no_lower(input_data) == PyStr(hook_tool_name(input_data))

\* pre_tool_hitl: name_lc = str(tool_name).lower()
hook_name_lc(input_data) == Lower(PyStr(hook_tool_name(input_data)))

\* the condition of pre_tool_hitl with the substring test reversed
hook_is_gated_reversed(name_lc) ==
    \/ name_lc \in HUMAN_GATED_TOOLS
    \/ \E k \in {S_bash, S_edit, S_write, S_notebook} : Contains(name_lc, k)

\* the condition of pre_tool_hitl remembering the last approval of a name
hook_is_gated_cached(name_lc) ==
    /\ \/ name_lc \in HUMAN_GATED_TOOLS
       \/ \E k \in {S_bash, S_edit, S_write, S_notebook} : Contains(k, name_lc)
    /\ ~(/\ gate.entry = "pre_tool_hitl"
         /\ gate.phase = "returned"
         /\ gate.prompt.head # "none"
         /\ gate.verdict = {}
         /\ Lower(gate.prompt.tool) = name_lc)

\* pre_tool_hitl: the condition under which it asks for confirmation
hook_is_gated(name_lc) ==
    \/ name_lc \in HUMAN_GATED_TOOLS
    \/ \E k \in {S_bash, S_edit, S_write, S_notebook} : Contains(k, name_lc)

\* the confirmation message of pre_tool_hitl
hook_prompt(input_data) ==
    [head |-> "Hook permission required",
     tool |-> PyStr(hook_tool_name(input_data)),
     input |-> input_data.tool_input]

\* pre_tool_hitl: what it returns once prompt_yes_no has answered
hook_return(allow) == IF ~allow THEN HookBlock ELSE HookProceed

\* ---------------------------------------------------------------- messages
\* A value carried by a block: `tag` tells values apart, `n` is the length
\* of its text without delimiters, `is_str` tells a str from a dict or list.
Value(tag, n, is_str) == [tag |-> tag, n |-> n, is_str |-> is_str]

\* A piece of text: the value it shows and its length in characters
Text(tag, len) == [tag |-> tag, len |-> len]
NoText == Text(<<0, 0>>, 0)

TextBlock(text) ==
    [type |-> "TextBlock", name |-> <<>>, body |-> text, is_error |-> FALSE]
ToolUseBlock(name, input) ==
    [type |-> "ToolUseBlock", name |-> name, body |-> input, is_error |-> FALSE]
ToolResultBlock(content, is_error) ==
    [type |-> "ToolResultBlock", name |-> <<>>, body |-> content, is_error |-> is_error]
ThinkingBlock(thinking) ==
    [type |-> "ThinkingBlock", name |-> <<>>, body |-> thinking, is_error |-> FALSE]

\* total_cost_usd: None, or a cost in units of 10^-5 dollars
NoCost == [none |-> TRUE, e5 |-> 0]
Cost(e5) == [none |-> FALSE, e5 |-> e5]

AssistantMessage(content) ==
    [type |-> "AssistantMessage", content |-> content, session_id |-> <<>>,
     duration_ms |-> 0, total_cost_usd |-> NoCost]
ResultMessage(sid, duration_ms, total_cost_usd) ==
    [type |-> "ResultMessage", content |-> <<>>, session_id |-> sid,
     duration_ms |-> duration_ms, total_cost_usd |-> total_cost_usd]
SystemMessage ==
    [type |-> "SystemMessage", content |-> <<>>, session_id |-> <<>>,
     duration_ms |-> 0, total_cost_usd |-> NoCost]

\* one printed line
PrintLine(kind, name, text, status, time, cost) ==
    [kind |-> kind, name |-> name, text |-> text, status |-> status,
     time |-> time, cost |-> cost]

PREVIEW_LIMIT == 500

\* json.dumps(x, ensure_ascii=False): the value between its delimiters
json_dumps(v) == Text(v.tag, v.n + 2)

\* str(x) of a str
str_of(v) == Text(v.tag, v.n)

\* a slice that keeps one character too many
Slice501(text) ==
    Text(text.tag, IF text.len > PREVIEW_LIMIT + 1 THEN PREVIEW_LIMIT + 1 ELSE text.len)

\* text[:500]
Slice500(text) ==
    Text(text.tag, IF text.len > PREVIEW_LIMIT THEN PREVIEW_LIMIT ELSE text.len)

\* print_assistant_message: the line printed for one block, if any
print_block(block) ==
    IF block.type = "TextBlock"
    THEN <<PrintLine("Claude", <<>>, str_of(block.body), "", 0, <<>>)>>
    ELSE IF block.type = "ToolUseBlock"
    THEN LET summarized_input == Slice500(json_dumps(block.body))
         IN  <<PrintLine("Using tool", block.name, summarized_input, "", 0, <<>>)>>
    ELSE IF block.type = "ToolResultBlock"
    THEN LET result_preview == IF block.body.is_str
                               THEN str_of(block.body)
                               ELSE json_dumps(block.body)
             preview == Slice500(result_preview)
             status == IF block.is_error THEN "error" ELSE "ok"
         IN  <<PrintLine("Tool result", <<>>, preview, status, 0, <<>>)>>
    ELSE <<>>

RECURSIVE print_blocks(_)
print_blocks(content) ==
    IF content = <<>>
    THEN <<>>
    ELSE print_block(Head(content)) \o print_blocks(Tail(content))

Reverse(s) == [i \in 1..Len(s) |-> s[Len(s) + 1 - i]]

\* print_assistant_message going through the blocks last to first
print_assistant_message_reversed(message) == print_blocks(Reverse(message.content))

\* print_assistant_message: for block in message.content
print_assistant_message(message) == print_blocks(message.content)

\* the cost formatted under `if msg.total_cost_usd`, the truthiness test
format_cost_truthy(total_cost_usd) ==
    IF ~total_cost_usd.none /\ total_cost_usd.e5 # 0
    THEN <<"$", (total_cost_usd.e5 + 5) \div 10>>
    ELSE <<"n/a">>

\* f"${msg.total_cost_usd:.4f}" if it is not None, else "n/a": the cost
\* rounded to units of 10^-4 dollars
format_cost(total_cost_usd) ==
    IF ~total_cost_usd.none
    THEN <<"$", (total_cost_usd.e5 + 5) \div 10>>
    ELSE <<"n/a">>

\* the line printed for a ResultMessage
result_line(msg) ==
    PrintLine("Result", msg.session_id, NoText, "", msg.duration_ms,
              format_cost(msg.total_cost_usd))

\* ------------------------------------------------------------ session loop
S_Bash == <<"B","a","s","h">>
S_Edit == <<"E","d","i","t">>
S_MultiEdit == <<"M","u","l","t","i","E","d","i","t">>
S_Write == <<"W","r","i","t","e">>
S_NotebookEdit == <<"N","o","t","e","b","o","o","k","E","d","i","t">>

\* HookMatcher(matcher="Bash|Edit|MultiEdit|Write|NotebookEdit"): the names
\* the pattern's alternatives spell
MATCHER == {S_Bash, S_Edit, S_MultiEdit, S_Write, S_NotebookEdit}

\* options_kwargs with the hooks entry set whatever skip_hitl is
BuildOptions_always_hook(skip) ==
    [hooks |-> {[event |-> "PreToolUse", matcher |-> MATCHER, hook |-> "pre_tool_hitl"]},
     can_use_tool |-> "unset",
     include_partial_messages |-> TRUE]

\* options_kwargs: the hooks entry is set unless skip_hitl; can_use_tool is
\* commented out
BuildOptions(skip) ==
    [hooks |-> IF ~skip
               THEN {[event |-> "PreToolUse", matcher |-> MATCHER, hook |-> "pre_tool_hitl"]}
               ELSE {},
     can_use_tool |-> "unset",
     include_partial_messages |-> TRUE]

\* the banner printed once connected
connected_line(skip) ==
    PrintLine("Connected", <<>>, NoText,
              IF skip THEN "HITL disabled" ELSE "HITL gate active", 0, <<>>)

\* async for msg in client.receive_response(): the next message is the
\* oldest one not yet taken
next_message(stream) == Head(stream)

\* a response stream the loop never sees the end of
response_done_never(msg) == FALSE

\* the response stream ends with the first message
response_done_at_once(msg) == TRUE

\* receive_response() ends once it has yielded a ResultMessage
response_done(msg) == msg.type = "ResultMessage"

\* client.query that tags the query with the prompt's own text
client_query_own_id(user_prompt, sid) ==
    [prompt |-> user_prompt, session_id |-> user_prompt]

\* await client.query(user_prompt, session_id=session_id)
client_query(user_prompt, sid) ==
    [prompt |-> user_prompt, session_id |-> sid]

\* user_prompt without .strip()
user_prompt_unstripped(line) == line

\* user_prompt = (await read_user_input("You: ")).strip()
user_prompt_of(line) == Strip(line)

\* ------------------------------------------------------------ input pools
\* tool names the runtime may ask about
ToolNames ==
    { <<"B","a","s","h">>, S_bash,
      <<"E","d","i","t">>, <<"M","u","l","t","i","E","d","i","t">>,
      <<"W","r","i","t","e">>,
      <<"N","o","t","e","b","o","o","k","E","d","i","t">>,
      <<"N","o","t","e","b","o","o","k","R","e","a","d">>,
      <<"r","e","w","r","i","t","e","_","f","i","l","e">>,
      <<"G","l","o","b">>, <<"B","a","s">>,
      <<>> }

\* lines the operator may type at a confirmation prompt
AnswerLines ==
    { <<"y">>, <<"Y","E","S">>, <<" ","Y","e","s"," ">>, <<"\t","y","\n">>,
      <<"n","o">>, <<>>, <<" "," ">>,
      <<"y","e">>, <<"y","e","s","!">>, <<"y"," ","e","s">> }

\* what the terminal can deliver to a confirmation read
Deliveries == {Line(a) : a \in AnswerLines} \cup {EOFError, KeyboardInterrupt}

ToolInputs == {"input"}

\* arguments of can_use_tool_gate
GateRequests == {StrVal(n) : n \in ToolNames} \cup {NoneVal}

\* arguments of pre_tool_hitl
HookRequests ==
    {InputData(TRUE, v, i) : v \in GateRequests, i \in ToolInputs}
    \cup {InputData(FALSE, NoneVal, i) : i \in ToolInputs}

\* tool names the runtime invokes during a session
SessionTools == {S_Bash, S_bash, <<"G","l","o","b">>}

\* what the terminal can deliver to a confirmation read during a session
SessionDeliveries == {Line(<<" ","Y","e","s"," ">>), Line(<<"n","o">>), KeyboardInterrupt}

\* what the terminal can deliver to a read of "You: "
UserDeliveries ==
    {Line(<<>>), Line(<<" ","\t">>), Line(<<" ","h","i"," ">>), EOFError, KeyboardInterrupt}

\* total_cost_usd of a ResultMessage: None, 0.0, 0.0123
Costs == {NoCost, Cost(0), Cost(1230)}

\* the messages the runtime streams before the ResultMessage; the k-th
\* message of a turn tags its values <<k, position>>
StreamMessages(k) ==
    { AssistantMessage(<<TextBlock(Value(<<k, 1>>, 5, TRUE)),
                         ToolUseBlock(S_Bash, Value(<<k, 2>>, 499, FALSE))>>),
      AssistantMessage(<<ToolResultBlock(Value(<<k, 1>>, 501, TRUE), TRUE),
                         ThinkingBlock(Value(<<k, 2>>, 7, TRUE)),
                         TextBlock(Value(<<k, 3>>, 5, TRUE))>>),
      SystemMessage }

NoDelivery == [kind |-> "none", text |-> <<>>]
NoPrompt == [head |-> "none", tool |-> <<>>, input |-> "none"]

NoEval ==
    [entry |-> "none", request |-> NoneVal, phase |-> "idle",
     prompt |-> NoPrompt, delivered |-> NoDelivery, verdict |-> "none"]

NoVerdict == {<<"none", "none">>}

\* no gate evaluation has been made
GateIdle ==
    /\ gate = NoEval
    /\ gatePrev = NoEval
    /\ gateCount = 0
    /\ reads = 0

\* interactive_session has not been called
SessionIdle ==
    /\ skip_hitl = FALSE
    /\ options = BuildOptions(FALSE)
    /\ session_id = <<>>
    /\ pc = "NotStarted"
    /\ queries = <<>>
    /\ userReads = 0
    /\ lastInput = NoDelivery
    /\ arrived = <<>>
    /\ inbox = <<>>
    /\ taken = 0
    /\ calls = <<>>
    /\ out = <<>>

GateInit ==
    /\ ptk \in BOOLEAN
    /\ GateIdle
    /\ SessionIdle

GateFree == gate.phase \in {"idle", "returned", "raised"} /\ gateCount < MaxEvals

\* can_use_tool_gate up to its first suspension: a gated name awaits
\* prompt_yes_no, any other name returns PermissionResultAllow at once
CanUseToolGateCall ==
    /\ GateFree
    /\ \E tool_name \in GateRequests, tool_input \in ToolInputs :
         LET tool_name_lc == gate_tool_name_lc(tool_name)
             base == [NoEval EXCEPT !.entry = "can_use_tool_gate",
                                    !.request = tool_name]
         IN  IF gate_is_gated(tool_name_lc)
             THEN /\ gate' = [base EXCEPT !.phase = "awaiting",
                                          !.prompt = gate_prompt(tool_name, tool_input)]
                  /\ reads' = reads + 1
             ELSE /\ gate' = [base EXCEPT !.phase = "returned",
                                          !.verdict = PermissionResultAllow]
                  /\ reads' = reads
    /\ gatePrev' = gate
    /\ gateCount' = gateCount + 1
    /\ UNCHANGED <<ptk, sessionVars>>

\* can_use_tool_gate resumes when the read resolves
CanUseToolGateReturn ==
    /\ gate.entry = "can_use_tool_gate"
    /\ gate.phase = "awaiting"
    /\ \E delivered \in Deliveries :
         LET allow == prompt_yes_no(ptk, delivered)
         IN  IF allow.raised
             THEN gate' = [gate EXCEPT !.phase = "raised",
                                       !.delivered = delivered,
                                       !.verdict = allow.exc]
             ELSE gate' = [gate EXCEPT !.phase = "returned",
                                       !.delivered = delivered,
                                       !.verdict = gate_return(gate.request, allow.value)]
    /\ UNCHANGED <<ptk, gatePrev, gateCount, reads, sessionVars>>

\* pre_tool_hitl up to its first suspension
PreToolHitlCall ==
    /\ GateFree
    /\ \E input_data \in HookRequests :
         LET name_lc == hook_name_lc(input_data)
             base == [NoEval EXCEPT !.entry = "pre_tool_hitl",
                                    !.request = input_data]
         IN  IF hook_is_gated(name_lc)
             THEN /\ gate' = [base EXCEPT !.phase = "awaiting",
                                          !.prompt = hook_prompt(input_data)]
                  /\ reads' = reads + 1
             ELSE /\ gate' = [base EXCEPT !.phase = "returned",
                                          !.verdict = HookProceed]
                  /\ reads' = reads
    /\ gatePrev' = gate
    /\ gateCount' = gateCount + 1
    /\ UNCHANGED <<ptk, sessionVars>>

\* pre_tool_hitl resumes when the read resolves
PreToolHitlReturn ==
    /\ gate.entry = "pre_tool_hitl"
    /\ gate.phase = "awaiting"
    /\ \E delivered \in Deliveries :
         LET allow == prompt_yes_no(ptk, delivered)
         IN  IF allow.raised
             THEN gate' = [gate EXCEPT !.phase = "raised",
                                       !.delivered = delivered,
                                       !.verdict = allow.exc]
             ELSE gate' = [gate EXCEPT !.phase = "returned",
                                       !.delivered = delivered,
                                       !.verdict = hook_return(allow.value)]
    /\ UNCHANGED <<ptk, gatePrev, gateCount, reads, sessionVars>>

GateNext ==
    \/ CanUseToolGateCall
    \/ CanUseToolGateReturn
    \/ PreToolHitlCall
    \/ PreToolHitlReturn

\* the two gate entry points driven directly, one evaluation at a time
GateSpec == GateInit /\ [][GateNext]_vars

\* --------------------------------------------------------------- the session
\* The agent runtime (ClaudeSDKClient and the process behind it) is the
\* environment of interactive_session. It streams the messages of a turn and
\* ends the turn with a ResultMessage; before it runs a tool it calls the
\* registered PreToolUse hook whose matcher names the tool, waits for what
\* the hook returns and does not run the tool on decision "block" (the
\* contract pre_tool_hitl's docstring states). It may start a tool invocation
\* while another awaits its confirmation, and it may stream messages
\* meanwhile: prompt_yes_no does not block the event loop.
S_interactive_cli == <<"i","n","t","e","r","a","c","t","i","v","e","-","c","l","i">>

\* main() has parsed the arguments and interactive_session has built its
\* options and chosen session_id; the client is about to connect
Init ==
    /\ ptk \in BOOLEAN
    /\ GateIdle
    /\ skip_hitl \in BOOLEAN
    /\ options = BuildOptions(skip_hitl)
    /\ session_id = S_interactive_cli
    /\ pc = "Connecting"
    /\ queries = <<>>
    /\ userReads = 0
    /\ lastInput = NoDelivery
    /\ arrived = <<>>
    /\ inbox = <<>>
    /\ taken = 0
    /\ calls = <<>>
    /\ out = <<>>

\* a tool invocation of the runtime
Call(name, hooked) ==
    [name |-> name, hooked |-> hooked, hook |-> "none", prompt |-> NoPrompt,
     delivered |-> NoDelivery, verdict |-> NoVerdict, ran |-> FALSE]

\* a confirmation prompt is outstanding
ConfirmPending == \E i \in DOMAIN calls : calls[i].hook = "awaiting"

\* the ResultMessage of this turn has been streamed
ResultSent == arrived # <<>> /\ arrived[Len(arrived)].type = "ResultMessage"

\* a runtime that is done with a tool invocation only once it ran
Settled_ran_only(c) == c.ran

\* the runtime is done with a tool invocation: it ran, or its hook blocked
\* it or failed
Settled(c) ==
    \/ c.ran
    \/ c.hook = "returned" /\ c.verdict = HookBlock
    \/ c.hook = "raised"

\* async with ClaudeSDKClient(options=options) as client: connected
Connect ==
    /\ pc = "Connecting"
    /\ pc' = "AwaitingInput"
    /\ out' = Append(out, connected_line(skip_hitl))
    /\ UNCHANGED <<ptk, gateVars, skip_hitl, options, session_id, queries,
                   userReads, lastInput, arrived, inbox, taken, calls>>

\* one pass of the while loop up to the query: read "You: ", strip, leave
\* on an empty prompt, else submit the query
ReadInput ==
    /\ pc = "AwaitingInput"
    /\ \E delivered \in UserDeliveries :
         LET r == read_user_input(ptk, delivered)
         IN  /\ lastInput' = delivered
             /\ userReads' = userReads + 1
             /\ IF r.raised
                THEN /\ r.exc \in {"EOFError", "KeyboardInterrupt"}
                     /\ out' = Append(out, PrintLine("Exiting", <<>>, NoText, "", 0, <<>>))
                     /\ pc' = "Terminated"
                     /\ UNCHANGED <<queries, arrived, inbox, taken, calls>>
                ELSE LET user_prompt == user_prompt_of(r.value)
                     IN  IF user_prompt = <<>>
                         THEN /\ out' = Append(out, PrintLine("Goodbye.", <<>>, NoText, "", 0, <<>>))
                              /\ pc' = "Terminated"
                              /\ UNCHANGED <<queries, arrived, inbox, taken, calls>>
                         ELSE /\ Len(queries) < MaxTurns
                              /\ queries' = Append(queries, client_query(user_prompt, session_id))
                              /\ pc' = "Streaming"
                              /\ arrived' = <<>>
                              /\ inbox' = <<>>
                              /\ taken' = 0
                              /\ calls' = <<>>
                              /\ out' = <<>>
    /\ UNCHANGED <<ptk, gateVars, skip_hitl, options, session_id>>

\* one pass of async for msg in client.receive_response()
StreamNext ==
    /\ pc = "Streaming"
    /\ inbox # <<>>
    /\ LET msg == next_message(inbox)
       IN  /\ inbox' = Tail(inbox)
           /\ taken' = taken + 1
           /\ out' = IF msg.type = "AssistantMessage"
                     THEN out \o print_assistant_message(msg)
                     ELSE IF msg.type = "ResultMessage"
                          THEN Append(out, result_line(msg))
                          ELSE out
           /\ pc' = IF response_done(msg) THEN "AwaitingInput" ELSE "Streaming"
    /\ UNCHANGED <<ptk, gateVars, skip_hitl, options, session_id, queries,
                   userReads, lastInput, arrived, calls>>

\* main: a KeyboardInterrupt that leaves asyncio.run ends the process. While
\* a read is outstanding the interrupt goes to that read instead.
TopLevelInterrupt ==
    /\ pc \in {"Connecting", "Streaming"}
    /\ ~ConfirmPending
    /\ pc' = "Terminated"
    /\ out' = Append(out, PrintLine("Interrupted. Bye.", <<>>, NoText, "", 0, <<>>))
    /\ UNCHANGED <<ptk, gateVars, skip_hitl, options, session_id, queries,
                   userReads, lastInput, arrived, inbox, taken, calls>>

\* the runtime streams one more message of the turn
RuntimeEmit ==
    /\ pc = "Streaming"
    /\ ~ResultSent
    /\ Len(arrived) < MaxMsgs
    /\ \E msg \in StreamMessages(Len(arrived) + 1) :
         /\ arrived' = Append(arrived, msg)
         /\ inbox' = Append(inbox, msg)
    /\ UNCHANGED <<ptk, gateVars, skip_hitl, options, session_id, pc, queries,
                   userReads, lastInput, taken, calls, out>>

\* the runtime ends the turn with its ResultMessage, once every tool
\* invocation of the turn is settled
RuntimeEmitResult ==
    /\ pc = "Streaming"
    /\ ~ResultSent
    /\ \A i \in DOMAIN calls : Settled(calls[i])
    /\ \E cost \in Costs :
         LET msg == ResultMessage(queries[Len(queries)].session_id, 10, cost)
         IN  /\ arrived' = Append(arrived, msg)
             /\ inbox' = Append(inbox, msg)
    /\ UNCHANGED <<ptk, gateVars, skip_hitl, options, session_id, pc, queries,
                   userReads, lastInput, taken, calls, out>>

\* the hooks registered for PreToolUse whose matcher names the tool
HooksFor(tool_name) ==
    {h \in options.hooks : h.event = "PreToolUse" /\ tool_name \in h.matcher}

\* pre_tool_hitl that does not await prompt_yes_no
pre_tool_hitl_call_no_await(input_data) ==
    [suspends |-> FALSE, prompt |-> NoPrompt, value |-> HookProceed]

\* pre_tool_hitl up to its first suspension: it awaits prompt_yes_no for a
\* gated name and returns {} for any other
pre_tool_hitl_call(input_data) ==
    IF hook_is_gated(hook_name_lc(input_data))
    THEN [suspends |-> TRUE, prompt |-> hook_prompt(input_data), value |-> NoVerdict]
    ELSE [suspends |-> FALSE, prompt |-> NoPrompt, value |-> HookProceed]

\* the runtime is about to run a tool: it calls the PreToolUse hook if one
\* matches the tool's name, and runs a tool no hook matches
RuntimeToolCall ==
    /\ pc = "Streaming"
    /\ ~ResultSent
    /\ Len(calls) < MaxCalls
    /\ \E tool_name \in SessionTools :
         IF HooksFor(tool_name) # {}
         THEN LET h == pre_tool_hitl_call(InputData(TRUE, StrVal(tool_name), "input"))
              IN  calls' = Append(calls,
                        [Call(tool_name, TRUE) EXCEPT
                            !.hook = IF h.suspends THEN "awaiting" ELSE "returned",
                            !.prompt = h.prompt,
                            !.verdict = h.value])
         ELSE calls' = Append(calls, [Call(tool_name, FALSE) EXCEPT !.ran = TRUE])
    /\ UNCHANGED <<ptk, gateVars, skip_hitl, options, session_id, pc, queries,
                   userReads, lastInput, arrived, inbox, taken, out>>

\* pre_tool_hitl after its await: the read of a pending confirmation
\* resolves and the hook returns
HookResume ==
    /\ \E i \in DOMAIN calls :
         /\ calls[i].hook = "awaiting"
         /\ \E delivered \in SessionDeliveries :
              LET allow == prompt_yes_no(ptk, delivered)
              IN  calls' = [calls EXCEPT ![i] =
                      IF allow.raised
                      THEN [@ EXCEPT !.hook = "raised", !.delivered = delivered]
                      ELSE [@ EXCEPT !.hook = "returned",
                                     !.delivered = delivered,
                                     !.verdict = hook_return(allow.value)]]
    /\ UNCHANGED <<ptk, gateVars, skip_hitl, options, session_id, pc, queries,
                   userReads, lastInput, arrived, inbox, taken, out>>

\* the runtime runs a tool whose hook returned without decision "block"
RuntimeExecute ==
    /\ pc = "Streaming"
    /\ \E i \in DOMAIN calls :
         /\ ~calls[i].ran
         /\ calls[i].hook = "returned"
         /\ calls[i].verdict # HookBlock
         /\ calls' = [calls EXCEPT ![i].ran = TRUE]
    /\ UNCHANGED <<ptk, gateVars, skip_hitl, options, session_id, pc, queries,
                   userReads, lastInput, arrived, inbox, taken, out>>

Next ==
    \/ Connect
    \/ ReadInput
    \/ StreamNext
    \/ TopLevelInterrupt
    \/ RuntimeEmit
    \/ RuntimeEmitResult
    \/ RuntimeToolCall
    \/ HookResume
    \/ RuntimeExecute

\* one interactive session against the agent runtime
Spec == Init /\ [][Next]_vars

\* The session under the scheduling the loop relies on: the connection
\* completes, the event loop hands an available message to the async-for
\* loop, every pending confirmation is eventually answered, the runtime runs
\* a tool its hook let through and ends every turn with its ResultMessage.
\* Nothing obliges the operator to answer "You: " or to interrupt.
FairSpec ==
    /\ Spec
    /\ WF_vars(Connect)
    /\ WF_vars(StreamNext)
    /\ WF_vars(HookResume)
    /\ WF_vars(RuntimeExecute)
    /\ WF_vars(RuntimeEmitResult)

\* --------------------------------------------------------------- rendering
\* The body of the async-for loop applied to one message at a time, over
\* messages whose payloads sit around the preview limit and over the costs
\* a ResultMessage can carry.

\* lengths of a block's payload, around PREVIEW_LIMIT
PayloadLengths ==
    {0, PREVIEW_LIMIT - 2, PREVIEW_LIMIT - 1, PREVIEW_LIMIT, PREVIEW_LIMIT + 1,
     2 * PREVIEW_LIMIT}

\* a block before its payload is tagged with its position
BlockShapes ==
    {[type |-> "ToolUseBlock", n |-> n, is_str |-> FALSE, is_error |-> FALSE] :
        n \in PayloadLengths}
    \cup {[type |-> "ToolResultBlock", n |-> n, is_str |-> t, is_error |-> FALSE] :
        n \in PayloadLengths, t \in BOOLEAN}
    \cup {[type |-> "ToolResultBlock", n |-> PREVIEW_LIMIT + 1, is_str |-> TRUE,
           is_error |-> TRUE]}
    \cup {[type |-> "TextBlock", n |-> 5, is_str |-> TRUE, is_error |-> FALSE]}

\* the block of a shape at position j of a message
BlockOf(shape, j) ==
    IF shape.type = "ToolUseBlock"
    THEN ToolUseBlock(S_Bash, Value(<<1, j>>, shape.n, shape.is_str))
    ELSE IF shape.type = "ToolResultBlock"
    THEN ToolResultBlock(Value(<<1, j>>, shape.n, shape.is_str), shape.is_error)
    ELSE TextBlock(Value(<<1, j>>, shape.n, shape.is_str))

\* AssistantMessages of one to MaxBlocks blocks
RenderAssistantMessages ==
    UNION {{AssistantMessage([j \in 1..k |-> BlockOf(f[j], j)]) :
               f \in [1..k -> BlockShapes]} : k \in 1..MaxBlocks}

\* total_cost_usd: None, zero, values at and around a rounding step
RenderCosts ==
    {NoCost} \cup {Cost(e) : e \in {0, 1, 4, 5, 1230, 1234, 1235, 99995}}

RenderResultMessages ==
    {ResultMessage(S_interactive_cli, d, c) : d \in {0, 10}, c \in RenderCosts}

\* the loop is in its async for, the message is next in the stream
RenderInit ==
    /\ ptk \in BOOLEAN
    /\ GateIdle
    /\ skip_hitl = FALSE
    /\ options = BuildOptions(FALSE)
    /\ session_id = S_interactive_cli
    /\ pc = "Streaming"
    /\ queries = <<client_query(<<"h","i">>, S_interactive_cli)>>
    /\ userReads = 1
    /\ lastInput = Line(<<" ","h","i"," ">>)
    /\ \E msg \in RenderAssistantMessages \cup RenderResultMessages :
         /\ arrived = <<msg>>
         /\ inbox = <<msg>>
    /\ taken = 0
    /\ calls = <<>>
    /\ out = <<>>

RenderNext == StreamNext

\* the loop body applied to one message
RenderSpec == RenderInit /\ [][RenderNext]_vars

\* ------------------------------------------------------------------ claims
\* The statements below are written from the specification's wording, with
\* their own definitions of "risky" and of an affirmative answer.

\* lower(n), character by character
ClaimLower(s) == [i \in 1..Len(s) |-> LowerChar(s[i])]

\* a tool name is risky: its lower-cased form is one of the five names or
\* has one of the four substrings
RiskyName(n) ==
    LET l == ClaimLower(n)
    IN  \/ l \in {S_bash, S_edit, S_multiedit, S_write, S_notebookedit}
        \/ \E k \in {S_bash, S_edit, S_write, S_notebook} :
             \E i \in 1..(Len(l) - Len(k) + 1) : SubSeq(l, i, i + Len(k) - 1) = k

\* a typed line is affirmative: whitespace, then y or yes in any letter
\* case, then whitespace
AffirmativeLine(raw) ==
    \E a \in 0..Len(raw), b \in 0..Len(raw) :
        /\ a + b <= Len(raw)
        /\ \A i \in 1..a : raw[i] \in Whitespace
        /\ \A i \in (Len(raw) - b + 1)..Len(raw) : raw[i] \in Whitespace
        /\ ClaimLower(SubSeq(raw, a + 1, Len(raw) - b)) \in {S_y, S_yes}

Affirmative(delivered) == delivered.kind = "line" /\ AffirmativeLine(delivered.text)

Interrupted(delivered) == delivered.kind \in {"EOFError", "KeyboardInterrupt"}

\* the tool name an evaluation was asked about
EvalToolName(e) ==
    IF e.entry = "can_use_tool_gate"
    THEN e.request
    ELSE IF e.entry = "pre_tool_hitl" /\ e.request.has_name
         THEN e.request.tool_name
         ELSE NoneVal

\* the evaluation was asked about a string tool name
Named(e) == e.entry # "none" /\ EvalToolName(e).kind = "str"

RiskyEval(e) == Named(e) /\ RiskyName(EvalToolName(e).s)
BenignEval(e) == Named(e) /\ ~RiskyName(EvalToolName(e).s)

Prompted(e) == e.prompt # NoPrompt

\* Allow from can_use_tool_gate, the empty signal from pre_tool_hitl
Allowed(e) ==
    /\ e.phase = "returned"
    /\ IF e.entry = "can_use_tool_gate"
       THEN e.verdict = PermissionResultAllow
       ELSE e.verdict = {}

\* Deny{reason: "User denied " + name} from can_use_tool_gate,
\* {decision: "block"} from pre_tool_hitl
Denied(e) ==
    /\ e.phase = "returned"
    /\ IF e.entry = "can_use_tool_gate"
       THEN e.verdict = [type |-> "PermissionResultDeny",
                         message |-> <<"User denied ">> \o EvalToolName(e).s]
       ELSE e.verdict = {<<"decision", "block">>}

Finished(e) == e.entry # "none" /\ e.phase # "awaiting"

\* C1: for every risky request, through either entry point, the gate
\* returns Allow / the empty signal iff the answer, trimmed and lower-cased,
\* is exactly "y" or "yes"; every other answer, the empty one included,
\* yields Deny / {decision: "block"}.
C1_FailClosed_Eval(e) ==
        (Finished(e) /\ RiskyEval(e) /\ e.delivered.kind = "line") =>
            /\ Allowed(e) <=> AffirmativeLine(e.delivered.text)
            /\ ~AffirmativeLine(e.delivered.text) => Denied(e)

\* C1: every finished evaluation of a risky request, the current and the
\* previous one, allows iff the answer is affirmative and denies otherwise.
C1_FailClosed == C1_FailClosed_Eval(gate) /\ C1_FailClosed_Eval(gatePrev)

C1_Witness ==
    /\ gatePrev.entry = "can_use_tool_gate"
    /\ RiskyEval(gatePrev)
    /\ gatePrev.delivered = Line(<<>>)
    /\ Denied(gatePrev)
    /\ gate.entry = "pre_tool_hitl"
    /\ RiskyEval(gate)
    /\ gate.delivered = Line(<<" ","Y","e","s"," ">>)
    /\ Allowed(gate)

\* C2: a tool name is classified as risky (a confirmation is asked for)
\* iff its lower-cased form is one of bash, edit, multiedit, write,
\* notebookedit or contains one of bash, edit, write, notebook; both entry
\* points classify alike.
C2_Classification_Eval(e) ==
    Named(e) => (Prompted(e) <=> RiskyName(EvalToolName(e).s))

\* C2: a confirmation is asked for exactly the risky names, in the current
\* and the previous evaluation, whichever entry point made them.
C2_Classification == C2_Classification_Eval(gate) /\ C2_Classification_Eval(gatePrev)

C2_Witness ==
    /\ gatePrev.entry = "can_use_tool_gate"
    /\ EvalToolName(gatePrev) = StrVal(<<"N","o","t","e","b","o","o","k","R","e","a","d">>)
    /\ Prompted(gatePrev)
    /\ gate.entry = "pre_tool_hitl"
    /\ EvalToolName(gate) = StrVal(<<"B","a","s">>)
    /\ ~Prompted(gate)

\* C3: for every benign request no confirmation prompt is issued, the line
\* reader is not called, and the verdict is Allow from can_use_tool_gate
\* and the empty signal from pre_tool_hitl.
C3_BenignState_Eval(e) ==
        BenignEval(e) =>
            /\ ~Prompted(e)
            /\ e.delivered = NoDelivery
            /\ Allowed(e)

C3_BenignState == C3_BenignState_Eval(gate) /\ C3_BenignState_Eval(gatePrev)

C3_BenignNoRead ==
    (gateCount' = gateCount + 1 /\ BenignEval(gate')) => reads' = reads

\* C3: a benign request is allowed without a prompt, and evaluating it
\* makes no read.
C3_Benign == []C3_BenignState /\ [][C3_BenignNoRead]_vars

C3_Witness ==
    /\ gate.entry = "pre_tool_hitl"
    /\ EvalToolName(gate) = StrVal(<<"G","l","o","b">>)
    /\ Allowed(gate)
    /\ gatePrev.entry = "can_use_tool_gate"
    /\ EvalToolName(gatePrev) = StrVal(<<"G","l","o","b">>)
    /\ Allowed(gatePrev)
    /\ reads = 0

\* C5: an EOFError or KeyboardInterrupt delivered to the read of a
\* risky-tool confirmation is turned into the empty answer inside the line
\* reader: the gate returns Deny / block, never Allow, and raises nothing.
C5_InterruptDenies_Eval(e) ==
        (Finished(e) /\ Interrupted(e.delivered)) =>
            /\ e.phase = "returned"
            /\ Denied(e)
            /\ ~Allowed(e)

C6_OwnVerdict_Eval(e) ==
        (Finished(e) /\ Named(e)) =>
            /\ Allowed(e) <=> (~RiskyName(EvalToolName(e).s) \/ Affirmative(e.delivered))
            /\ (RiskyName(EvalToolName(e).s) /\ Allowed(e)) => Prompted(e)

C6_OwnVerdict == C6_OwnVerdict_Eval(gate) /\ C6_OwnVerdict_Eval(gatePrev)

C6_OwnPrompt ==
    (gateCount' = gateCount + 1 /\ Named(gate')) =>
        reads' = reads + (IF RiskyName(EvalToolName(gate').s) THEN 1 ELSE 0)

\* C6: each verdict depends on its own name and answer alone, and each
\* risky evaluation makes exactly one read of its own.
C6_Stateless == []C6_OwnVerdict /\ [][C6_OwnPrompt]_vars

C6_Witness ==
    /\ gatePrev.entry = "pre_tool_hitl"
    /\ gate.entry = "pre_tool_hitl"
    /\ gatePrev.request = gate.request
    /\ EvalToolName(gate) = StrVal(<<"B","a","s","h">>)
    /\ gatePrev.delivered = Line(<<"n","o">>)
    /\ Denied(gatePrev)
    /\ gate.delivered = Line(<<"Y","E","S">>)
    /\ Allowed(gate)
    /\ reads = 2

\* ---------------------------------------------------------- session claims
BlankLine(text) == \A k \in 1..Len(text) : text[k] \in Whitespace

\* C4 as stated: with the hook registered, a gated tool invocation never
\* executes before the gate has returned its verdict for it and never when
\* the verdict is block; the gate returns only after the confirmation
\* prompt has resolved; and while a confirmation is pending neither the
\* tool call proceeds nor the message stream advances.
C4_GateBeforeRun ==
    \A i \in DOMAIN calls :
        LET c == calls[i]
        IN  c.hooked =>
              /\ c.ran => (c.hook = "returned" /\ c.verdict = {})
              /\ c.hook = "awaiting" => ~c.ran
              /\ (c.hook = "returned" /\ RiskyName(c.name)) =>
                    (c.prompt # NoPrompt /\ c.delivered # NoDelivery)

C4_StreamHeld ==
    ConfirmPending => (taken' = taken /\ out' = out)

\* C4 as stated, the held message stream included.
C4_Original == []C4_GateBeforeRun /\ [][C4_StreamHeld]_vars

\* C4 amended: with the hook registered, a gated tool invocation never
\* executes before the gate has returned its verdict for it and never when
\* the verdict is block; the gate returns only after the confirmation
\* prompt has resolved, and while its confirmation is pending the tool call
\* does not proceed. (The message stream is not held meanwhile.)
C4_GatedToolWaits == C4_GateBeforeRun

C4_Witness ==
    \E i \in DOMAIN calls, j \in DOMAIN calls :
        /\ calls[i].hooked /\ calls[i].ran
        /\ Affirmative(calls[i].delivered)
        /\ calls[j].hooked /\ ~calls[j].ran
        /\ calls[j].verdict = {<<"decision", "block">>}
        /\ calls[j].delivered = Line(<<"n","o">>)

\* C7: at any time at most one operator prompt is outstanding: never two
\* confirmation prompts at once, and never a confirmation prompt together
\* with the loop's read of "You: ".
C7_OnePrompt ==
    Cardinality({i \in DOMAIN calls : calls[i].hook = "awaiting"})
        + (IF pc = "AwaitingInput" THEN 1 ELSE 0) <= 1

\* C8: when the line read at "You: " is empty after trimming, the loop
\* prints the goodbye message and terminates without submitting a query.
C8_Step ==
    (/\ userReads' = userReads + 1
     /\ lastInput'.kind = "line"
     /\ BlankLine(lastInput'.text)) =>
        /\ pc' = "Terminated"
        /\ queries' = queries
        /\ Len(out') = Len(out) + 1
        /\ out'[Len(out')].kind = "Goodbye."

\* C8: every read of a blank line at "You: " prints Goodbye., terminates
\* and submits no query.
C8_EmptyInputEnds == [][C8_Step]_vars

C8_Witness ==
    /\ pc = "Terminated"
    /\ lastInput = Line(<<" ","\t">>)
    /\ out[Len(out)].kind = "Goodbye."
    /\ Len(queries) = 1

\* C9 as stated: the loop's only transitions are Connecting->AwaitingInput,
\* AwaitingInput->Streaming, Streaming->AwaitingInput and
\* AwaitingInput->Terminated.
C9_Listed ==
    \/ pc' = pc
    \/ pc = "Connecting" /\ pc' = "AwaitingInput"
    \/ pc = "AwaitingInput" /\ pc' = "Streaming"
    \/ pc = "Streaming" /\ pc' = "AwaitingInput"
    \/ pc = "AwaitingInput" /\ pc' = "Terminated"

\* C9 as stated: every step of the loop is one of the four listed
\* transitions.
C9_Original == [][C9_Listed]_vars

\* the turn's stream has been taken to its end
StreamExhausted == ResultSent /\ taken = Len(arrived) /\ inbox = <<>>

\* C9 amended: the loop's only transitions are Connecting->AwaitingInput,
\* AwaitingInput->Streaming (non-empty trimmed input, exactly one query
\* submitted), Streaming->AwaitingInput (response stream exhausted),
\* AwaitingInput->Terminated (empty input or interruption) and, on a
\* KeyboardInterrupt that reaches main, Connecting->Terminated and
\* Streaming->Terminated. Terminated is absorbing: after it no input is
\* read, no query is submitted and nothing is rendered. An input is read
\* only before the first query or after the previous query's stream is
\* exhausted, and a query is submitted only then.
C9_Transition ==
    /\ \/ pc' = pc
       \/ pc = "Connecting" /\ pc' = "AwaitingInput"
       \/ /\ pc = "AwaitingInput" /\ pc' = "Streaming"
          /\ lastInput'.kind = "line" /\ ~BlankLine(lastInput'.text)
          /\ Len(queries') = Len(queries) + 1
       \/ /\ pc = "Streaming" /\ pc' = "AwaitingInput"
          /\ StreamExhausted'
       \/ /\ pc = "AwaitingInput" /\ pc' = "Terminated"
          /\ userReads' = userReads + 1
          /\ \/ lastInput'.kind = "line" /\ BlankLine(lastInput'.text)
             \/ Interrupted(lastInput')
       \/ /\ pc \in {"Connecting", "Streaming"} /\ pc' = "Terminated"
          /\ out'[Len(out')].kind = "Interrupted. Bye."
    /\ pc = "Terminated" => UNCHANGED <<userReads, queries, out, taken>>
    /\ userReads' # userReads =>
          /\ pc = "AwaitingInput"
          /\ queries = <<>> \/ StreamExhausted
    /\ queries' # queries =>
          /\ pc = "AwaitingInput" /\ pc' = "Streaming"
          /\ Len(queries') = Len(queries) + 1
    /\ (pc = "AwaitingInput" /\ pc' = "AwaitingInput") => UNCHANGED vars

\* C9 amended: every step is one of the four listed transitions or an
\* interrupt from Connecting or Streaming; Terminated is absorbing; one
\* query at a time.
C9_LoopTransitions == [][C9_Transition]_vars

C9_Witness ==
    /\ pc = "Terminated"
    /\ Len(queries) = 2
    /\ StreamExhausted
    /\ lastInput = Line(<<>>)

\* the values shown by the block lines of the output, in print order
RECURSIVE ShownTags(_)
ShownTags(lines) ==
    IF lines = <<>>
    THEN <<>>
    ELSE (IF Head(lines).kind \in {"Claude", "Using tool", "Tool result"}
          THEN <<Head(lines).text.tag>>
          ELSE <<>>) \o ShownTags(Tail(lines))

\* the values of the renderable blocks of one message, in content order
RECURSIVE BlockTags(_)
BlockTags(content) ==
    IF content = <<>>
    THEN <<>>
    ELSE (IF Head(content).type \in {"TextBlock", "ToolUseBlock", "ToolResultBlock"}
          THEN <<Head(content).body.tag>>
          ELSE <<>>) \o BlockTags(Tail(content))

\* those of a run of messages, in arrival order
RECURSIVE ArrivalTags(_)
ArrivalTags(msgs) ==
    IF msgs = <<>>
    THEN <<>>
    ELSE (IF Head(msgs).type = "AssistantMessage"
          THEN BlockTags(Head(msgs).content)
          ELSE <<>>) \o ArrivalTags(Tail(msgs))

\* C10: within a turn the messages are processed one at a time in arrival
\* order and the blocks of each AssistantMessage are rendered in content
\* order: nothing is rendered before what precedes it, nothing twice.
C10_RenderOrder ==
    (pc # "Connecting" /\ queries # <<>>) =>
        /\ taken <= Len(arrived)
        /\ inbox = SubSeq(arrived, taken + 1, Len(arrived))
        /\ ShownTags(out) = ArrivalTags(SubSeq(arrived, 1, taken))

C10_Witness ==
    /\ taken = 2
    /\ Len(arrived) >= 2
    /\ arrived[1].type = "AssistantMessage"
    /\ arrived[2].type = "AssistantMessage"
    /\ Len(arrived[1].content) = 3
    /\ ShownTags(out) = <<<<1, 1>>, <<1, 3>>, <<2, 1>>, <<2, 2>>>>

\* some verdict of this turn is a block
SomeDenied == \E i \in DOMAIN calls : calls[i].verdict = {<<"decision", "block">>}

\* C11: every query submitted carries the same session identifier: the
\* one chosen before the loop starts ("interactive-cli"), which no turn,
\* message or verdict changes.
C11_OneSessionId ==
    /\ session_id = <<"i","n","t","e","r","a","c","t","i","v","e","-","c","l","i">>
    /\ \A i \in DOMAIN queries : queries[i].session_id = session_id
    /\ \A i \in DOMAIN queries, j \in DOMAIN queries :
           queries[i].session_id = queries[j].session_id

C11_Witness ==
    /\ Len(queries) = 2
    /\ queries[1].session_id = queries[2].session_id
    /\ taken >= 1
    /\ SomeDenied

\* the permission configuration the flag selects
C12_Modes ==
    /\ options.can_use_tool = "unset"
    /\ ~skip_hitl =>
          /\ Cardinality(options.hooks) = 1
          /\ \A h \in options.hooks : h.event = "PreToolUse" /\ h.hook = "pre_tool_hitl"
    /\ skip_hitl =>
          /\ options.hooks = {}
          /\ \A i \in DOMAIN calls :
                 /\ ~calls[i].hooked
                 /\ calls[i].prompt = NoPrompt
                 /\ calls[i].hook = "none"
                 /\ calls[i].delivered = NoDelivery

C12_Fixed == options' = options /\ skip_hitl' = skip_hitl

\* C12: the permission configuration is fixed at startup and is one of two
\* modes: without --no-hitl the PreToolUse hook pre_tool_hitl is registered;
\* with --no-hitl no hook is registered and no confirmation prompt is issued
\* for any tool invocation. can_use_tool is set in neither mode.
C12_PermissionModes == []C12_Modes /\ [][C12_Fixed]_vars

C12_Witness ==
    /\ skip_hitl
    /\ Len(queries) = 2
    /\ Len(calls) = 2
    /\ \A i \in DOMAIN calls : calls[i].ran /\ RiskyName(calls[i].name)

\* the process was ended by the operator's interrupt reaching main
OperatorInterrupted ==
    /\ pc = "Terminated"
    /\ out # <<>>
    /\ out[Len(out)].kind = "Interrupted. Bye."

\* a step in which the hook returns {decision: "block"} for an invocation
C13_DenialStep ==
    (\E i \in DOMAIN calls :
        /\ i \in DOMAIN calls'
        /\ calls[i].verdict # {<<"decision", "block">>}
        /\ calls'[i].verdict = {<<"decision", "block">>}) =>
            /\ pc = "Streaming" /\ pc' = "Streaming"
            /\ UNCHANGED <<arrived, inbox, taken, out, queries>>

\* after a denial the loop leaves Streaming only with the stream exhausted
C13_AfterDenial ==
    (pc = "Streaming" /\ SomeDenied) =>
        \/ pc' = "Streaming"
        \/ pc' = "AwaitingInput" /\ StreamExhausted'
        \/ OperatorInterrupted'

C14_Step ==
    (userReads' = userReads + 1 /\ Interrupted(lastInput')) =>
        /\ pc' = "Terminated"
        /\ queries' = queries
        /\ Len(out') = Len(out) + 1
        /\ out'[Len(out')].kind = "Goodbye."

SerializedLen(block) ==
    IF block.type = "ToolResultBlock" /\ block.body.is_str
    THEN block.body.n
    ELSE block.body.n + 2

\* the preview the claim expects: the first 500 characters of a longer
\* form, the form itself otherwise
ExpectedPreview(block) ==
    [tag |-> block.body.tag,
     len |-> IF SerializedLen(block) > 500 THEN 500 ELSE SerializedLen(block)]

\* the lines of the output that show the payload tagged `tag`
LinesOf(tag) == {l \in DOMAIN out : out[l].text.tag = tag}

\* C15: for every ToolUseBlock input and every ToolResultBlock content the
\* rendered preview is the first 500 characters of the serialized form when
\* that form is longer than 500 characters (exactly 500 characters), and
\* the serialized form unmodified when it has 500 characters or fewer.
C15_Truncation ==
    (taken = 1 /\ arrived[1].type = "AssistantMessage") =>
        \A j \in DOMAIN arrived[1].content :
            LET block == arrived[1].content[j]
            IN  block.type \in {"ToolUseBlock", "ToolResultBlock"} =>
                  /\ Cardinality(LinesOf(block.body.tag)) = 1
                  /\ \A l \in LinesOf(block.body.tag) :
                        /\ out[l].text = ExpectedPreview(block)
                        /\ SerializedLen(block) > 500 => out[l].text.len = 500
                        /\ SerializedLen(block) <= 500 =>
                              out[l].text.len = SerializedLen(block)

C15_Witness ==
    /\ taken = 1
    /\ arrived[1].type = "AssistantMessage"
    /\ Len(arrived[1].content) = 2
    /\ arrived[1].content[1].type = "ToolUseBlock"
    /\ arrived[1].content[1].body.n = 499
    /\ out[1].text.len = 500
    /\ arrived[1].content[2].type = "ToolResultBlock"
    /\ arrived[1].content[2].body.is_str
    /\ arrived[1].content[2].body.n = 500
    /\ out[2].text.len = 500

\* C16: for every ResultMessage taken from the stream the loop prints one
\* result line whose cost field is "n/a" iff total_cost_usd is None, and
\* otherwise is "$" followed by the cost to four decimal places; a cost of
\* zero is rendered as a number.
C16_CostField ==
    (taken = 1 /\ arrived[1].type = "ResultMessage") =>
        /\ Len(out) = 1
        /\ out[1].kind = "Result"
        /\ out[1].cost[1] = "n/a" <=> arrived[1].total_cost_usd.none
        /\ ~arrived[1].total_cost_usd.none =>
              /\ Len(out[1].cost) = 2
              /\ out[1].cost[1] = "$"
              /\ 10 * out[1].cost[2] - arrived[1].total_cost_usd.e5 \in -5..5
              /\ arrived[1].total_cost_usd.e5 = 0 => out[1].cost[2] = 0

C16_Witness ==
    /\ taken = 1
    /\ arrived[1].type = "ResultMessage"
    /\ ~arrived[1].total_cost_usd.none
    /\ arrived[1].total_cost_usd.e5 = 0
    /\ out[1].cost = <<"$", 0>>

\* ------------------------------------------------------- entry-point claims
\* two evaluations, one through each entry point, of the same tool name
\* (a missing name and None alike count as no name)
Paired(a, b) ==
    /\ a.entry = "can_use_tool_gate"
    /\ b.entry = "pre_tool_hitl"
    /\ EvalToolName(a) = EvalToolName(b)

\* the two agree on whether they prompt and, given the same answer, on the
\* verdict
C17_Agree(a, b) ==
    Paired(a, b) =>
        /\ Prompted(a) <=> Prompted(b)
        /\ (Finished(a) /\ Finished(b) /\ a.delivered = b.delivered) =>
              /\ Allowed(a) <=> Allowed(b)
              /\ (a.verdict.type = "PermissionResultDeny")
                    <=> (b.verdict = {<<"decision", "block">>})
              /\ Allowed(a) \/ a.verdict.type = "PermissionResultDeny"

\* C17: the two entry points implement one policy: for every tool name and
\* operator answer can_use_tool_gate returns Allow exactly when
\* pre_tool_hitl returns the empty signal, Deny exactly when it returns
\* {decision: "block"}, and one prompts exactly when the other does,
\* missing, None, empty and mixed-case names included.
C17_OnePolicy == C17_Agree(gate, gatePrev) /\ C17_Agree(gatePrev, gate)

C17_Witness ==
    /\ gatePrev.entry = "can_use_tool_gate"
    /\ gatePrev.request = NoneVal
    /\ Allowed(gatePrev)
    /\ ~Prompted(gatePrev)
    /\ gate.entry = "pre_tool_hitl"
    /\ ~gate.request.has_name
    /\ Allowed(gate)
    /\ ~Prompted(gate)

\* C18: with human-in-the-loop enabled, every tool invocation whose name
\* the gate classifies as risky (the five names in any letter case, and
\* names containing bash, edit, write or notebook) is matched by the
\* registered matcher, reaches pre_tool_hitl and is confirmed before it can
\* execute: no risky name bypasses the hook.
C18_NoBypass ==
    ~skip_hitl =>
        \A i \in DOMAIN calls :
            RiskyName(calls[i].name) =>
                /\ calls[i].hooked
                /\ calls[i].ran =>
                      (calls[i].prompt # NoPrompt /\ Affirmative(calls[i].delivered))

\* ------------------------------------------------------- termination claims
\* the last read of "You: " was given an empty line or was interrupted
EndingInput ==
    /\ userReads > 0
    /\ \/ lastInput.kind = "line" /\ BlankLine(lastInput.text)
       \/ Interrupted(lastInput)

\* Terminated is entered on empty input or an interrupt only, and empty
\* input or an interrupted read always enters it; while the loop awaits
\* input a read can be made, and a non-empty line can be submitted
C19_State ==
    /\ pc = "Terminated" => (EndingInput \/ OperatorInterrupted)
    /\ EndingInput => pc = "Terminated"
    /\ pc = "AwaitingInput" => ENABLED ReadInput
    /\ (pc = "AwaitingInput" /\ Len(queries) < MaxTurns) =>
           ENABLED (ReadInput /\ pc' = "Streaming")

\* a non-empty line never ends the session: it starts a turn
C19_Step ==
    /\ (/\ userReads' = userReads + 1
        /\ lastInput'.kind = "line"
        /\ ~BlankLine(lastInput'.text)) =>
           (pc' = "Streaming" /\ Len(queries') = Len(queries) + 1)
    /\ (pc # "Terminated" /\ pc' = "Terminated") =>
           \/ userReads' = userReads + 1 /\ EndingInput'
           \/ OperatorInterrupted'

\* C19: the session terminates on empty input or interrupt and only then.
\* With every response stream finite and every pending prompt eventually
\* answered, the loop always comes back to "You: " (or the operator
\* interrupts), where an empty line or an end-of-input takes it to
\* Terminated; a non-empty line never terminates it, whatever the number of
\* turns so far.
C19_Termination ==
    /\ []C19_State
    /\ [][C19_Step]_vars
    /\ (pc = "Connecting") ~> (pc = "AwaitingInput" \/ OperatorInterrupted)
    /\ (pc = "Streaming") ~> (pc = "AwaitingInput" \/ OperatorInterrupted)

C19_Witness ==
    /\ pc = "Terminated"
    /\ Len(queries) = 2
    /\ StreamExhausted
    /\ lastInput = EOFError
    /\ SomeDenied

====
